---- MODULE Spec2Model ----
(***************************************************************************)
(* Model of the benchmark runner (src/src/lib/benchmark.py: Benchmark.run  *)
(* and Benchmark.__run_solver) and of the figure builder                   *)
(* (src/benchmarx/plotter.py: Plotter.plotly_figure, Plotter.plot).        *)
(*                                                                         *)
(* Strings that the code slices or searches (method names, metric names,   *)
(* hover texts) are sequences of characters / tokens.  Python dicts are    *)
(* functions whose DOMAIN is the set of keys present.  Tolerances and      *)
(* errors are integers in units of 1e-4.                                   *)
(***************************************************************************)
EXTENDS Integers, Sequences, FiniteSets, TLC

\* None, where the code holds a number or None
None == -1

\* None, where the code holds an object or None
NoneObj == [kind |-> "None"]

\* ---- bounds of the model ------------------------------------------------
MaxIter == 2        \* largest configured maxiter
MaxMethods == 2     \* longest list of configured methods
MaxRuns == 2        \* calls of Benchmark.run on one Benchmark object

\* ---- dict helpers ---------------------------------------------------------
EmptyDict == [k \in {} |-> None]

Put(d, k, v) == [x \in (DOMAIN d) \cup {k} |-> IF x = k THEN v ELSE d[x]]

Pop(d, k) == [x \in (DOMAIN d) \ {k} |-> d[x]]

ToSet(s) == {s[n] : n \in 1..Len(s)}

\* ---- names ----------------------------------------------------------------
GRADIENT_DESCENT == <<"GRADIENT_DESCENT">>

GD_const == <<"GRADIENT_DESCENT", "_const_step">>
GD_adapt == <<"GRADIENT_DESCENT", "_adaptive_step">>
CSGD == <<"CSGD">>

MethodNames == {GD_const, GD_adapt, CSGD}

\* str.startswith
startswith(s, prefix) ==
    /\ Len(s) >= Len(prefix)
    /\ SubSeq(s, 1, Len(prefix)) = prefix

\* ---- values ---------------------------------------------------------------
X_INIT == 3                 \* the configured initial point
ErrVals == {5, 50, 500}     \* state.error after a step: 5e-4, 5e-3, 5e-2
ConfTols == {100}           \* a configured 'tol': 1e-2
DefaultTol == 10            \* tol = 1e-3

\* time.time() - start_time, an opaque duration
Duration == 0

\* state.error of a built-in solver's init_state: no smaller than any later error
InitError == CHOOSE e \in ErrVals : \A x \in ErrVals : e >= x

\* problem.f, the objective
f(x) == x * x

\* one optimisation step on the iterate (None stays None only if it raises)
NextPoint(sol) == IF sol = None THEN None ELSE IF sol > 0 THEN sol - 1 ELSE 0

\* ---- configuration (Benchmark.__init__) -----------------------------------
\* a parameter mapping: 'maxiter' always, 'x_init' and 'tol' optionally
Params(m, hasX, t) ==
    LET d0 == [k \in {"maxiter"} |-> m]
        d1 == IF hasX THEN Put(d0, "x_init", X_INIT) ELSE d0
    IN  IF t = None THEN d1 ELSE Put(d1, "tol", t)

\* lists of distinct method names
NameLists ==
    { ns \in UNION { [1..n -> MethodNames] : n \in 1..MaxMethods } :
        \A a, b \in 1..Len(ns) : a # b => ns[a] # ns[b] }

\* lists of configured methods; as in test_local, the methods of one
\* benchmark share the initial point and the tolerance
MethodLists ==
    { [n \in 1..Len(ns) |-> [method |-> ns[n], params |-> Params(ms[n], hasX, t)]] :
        ns \in NameLists, ms \in [1..MaxMethods -> 0..MaxIter],
        hasX \in BOOLEAN, t \in ConfTols \cup {None} }

MetricChoices ==
    { {"nit", "history_x", "history_f"}, {"history_f", "time", "errors"} }

\* the solver passed to run(user_method=...): None or a CustomOptimizer
UserMethods ==
    {NoneObj} \cup [kind : {"CustomOptimizer"}, maxiter : 0..MaxIter, x_init : {X_INIT}]

VARIABLES
    methods,        \* self.methods: the Method Configuration
    metrics,        \* self.metrics
    user_method,    \* argument of run()
    res_methods,    \* res.methods
    data,           \* data[self.problem]
    item,           \* position of run()'s loop over self.methods
    ret,            \* the BenchmarkResult returned by run(), or None
    pc,             \* idle | items | check | body | exit | returned | raised
    custom_method, maxiter, sol, state_error, tol, i, result,   \* __run_solver
    methods0,       \* history: the configuration passed at construction
    runs,           \* history: calls of run() so far
    steps,          \* history: update steps completed in the current loop
    consulted,      \* history: stop condition evaluated before the first update
    exit_reason,    \* history: why the current loop ended
    failed,         \* history: item whose step raised in this run, or 0
    dataframe,      \* plotter: the table handed to plotly_figure
    plot_metrics,   \* plotter: the metrics handed to plot()
    dropdown_options, \* plotter: the dropdown options
    fig_data,       \* plotter: fig.data, the traces in the order added
    buttons,        \* plotter: the buttons of the dropdown, one per option
    i_method,       \* plotter: position of the loop over the methods
    i_option,       \* plotter: position of the loop over the options
    ppc             \* plotter: idle | traces | done

vars == << methods, metrics, user_method, res_methods, data, item, ret, pc,
           custom_method, maxiter, sol, state_error, tol, i, result,
           methods0, runs, steps, consulted, exit_reason, failed,
           dataframe, plot_metrics, dropdown_options, fig_data, buttons,
           i_method, i_option, ppc >>

run_vars == << methods, metrics, user_method, res_methods, data, item, ret, pc,
               custom_method, maxiter, sol, state_error, tol, i, result,
               methods0, runs, steps, consulted, exit_reason, failed >>

plot_vars == << dataframe, plot_metrics, dropdown_options, fig_data, buttons,
                i_method, i_option, ppc >>

solver_vars == << custom_method, maxiter, sol, state_error, tol, i, result,
                  steps, consulted, exit_reason >>

\* no figure is being built
PlotIdle ==
    /\ dataframe = [methods |-> << >>, flat |-> {}]
    /\ plot_metrics = << >>
    /\ dropdown_options = << >>
    /\ fig_data = << >>
    /\ buttons = << >>
    /\ i_method = 1
    /\ i_option = 1
    /\ ppc = "idle"

\* run() has not been called
RunIdle ==
    /\ user_method = NoneObj
    /\ res_methods = << >>
    /\ data = EmptyDict
    /\ item = 1
    /\ ret = NoneObj
    /\ pc = "idle"
    /\ custom_method = FALSE
    /\ maxiter = 0
    /\ sol = None
    /\ state_error = None
    /\ tol = DefaultTol
    /\ i = 0
    /\ result = EmptyDict
    /\ runs = 0
    /\ steps = 0
    /\ consulted = FALSE
    /\ exit_reason = "none"
    /\ failed = 0

Init ==
    /\ PlotIdle
    /\ methods \in MethodLists
    /\ methods0 = methods
    /\ metrics \in MetricChoices
    /\ RunIdle

\* ---- Benchmark.__run_solver -----------------------------------------------
\* truth value of the imported module object named custom_optimizer
custom_optimizer == TRUE

\* tol = 1e-3; if not custom_optimizer and 'tol' in kwargs: tol = kwargs['tol']
ResolveTol(kwargs) ==
    IF ~custom_optimizer /\ "tol" \in DOMAIN kwargs THEN kwargs["tol"]
    ELSE DefaultTol

\* def stop_criterion(err, tol)
stop_criterion(err, t) == err < t

\* a loop that runs one pass too many
InRange_inclusive(n, m) == n <= m

\* for i in range(solver.maxiter)
InRange(n, m) == n < m

\* a loop that consults the stop condition on every pass
StopConsulted_always(n) == n >= 0

\* if i > 0: the stop condition is consulted
StopConsulted(n) == n > 0

\* bookkeeping that overwrites the series instead of appending
AppendSeries_overwrite(res, key, v) == Put(res, key, << v >>)

\* result[key] = [v] if the key is absent, else result[key].append(v)
AppendSeries(res, key, v) ==
    IF key \notin DOMAIN res THEN Put(res, key, << v >>)
    ELSE [res EXCEPT ![key] = Append(@, v)]

\* bookkeeping that appends a 1 to "nit" on every pass
CountNit_append(res) ==
    IF "nit" \notin DOMAIN res THEN Put(res, "nit", << 1 >>)
    ELSE [res EXCEPT !["nit"] = Append(@, 1)]

\* result["nit"] = [1] if the key is absent, else result["nit"][0] += 1
CountNit(res) ==
    IF "nit" \notin DOMAIN res THEN Put(res, "nit", << 1 >>)
    ELSE [res EXCEPT !["nit"] = [@ EXCEPT ![1] = @ + 1]]

\* the metric bookkeeping of one iteration, after the update
Collect(res, ms, s, err) ==
    LET r1 == IF "history_x" \in ms THEN AppendSeries(res, "history_x", s) ELSE res
        r2 == IF "history_f" \in ms THEN AppendSeries(r1, "history_f", f(s)) ELSE r1
        r3 == IF "nit" \in ms THEN CountNit(r2) ELSE r2
        r4 == IF "errors" \in ms THEN AppendSeries(r3, "errors", err) ELSE r3
    IN  r4

\* the prologue of __run_solver, up to the loop
EnterSolver(custom, solver_maxiter, solver_x_init, x_init, kwargs) ==
    /\ custom_method' = custom
    /\ maxiter' = solver_maxiter
    /\ sol' = IF custom /\ x_init = None THEN solver_x_init ELSE x_init
    /\ state_error' = (IF custom THEN None ELSE InitError)
    /\ tol' = ResolveTol(kwargs)
    /\ i' = 0
    /\ result' = EmptyDict
    /\ steps' = 0
    /\ consulted' = FALSE
    /\ exit_reason' = "none"
    /\ pc' = "check"

\* the locals of __run_solver are gone once it is left
LeaveSolver ==
    /\ custom_method' = FALSE
    /\ maxiter' = 0
    /\ sol' = None
    /\ state_error' = None
    /\ tol' = DefaultTol
    /\ i' = 0
    /\ result' = EmptyDict
    /\ steps' = 0
    /\ consulted' = FALSE
    /\ exit_reason' = "none"

\* the head of the loop: range test and the early-exit checks
LoopCheck ==
    /\ UNCHANGED plot_vars
    /\ pc = "check"
    /\ IF ~InRange(i, maxiter)
       THEN /\ pc' = "exit"
            /\ exit_reason' = "maxiter"
            /\ UNCHANGED consulted
       ELSE IF StopConsulted(i)
       THEN /\ consulted' = (consulted \/ steps = 0)
            /\ \E stop \in (IF custom_method THEN BOOLEAN
                            ELSE {stop_criterion(state_error, tol)}) :
                 IF stop THEN pc' = "exit" /\ exit_reason' = "stop"
                 ELSE pc' = "body" /\ UNCHANGED exit_reason
       ELSE /\ pc' = "body"
            /\ UNCHANGED << consulted, exit_reason >>
    /\ UNCHANGED << methods, metrics, user_method, res_methods, data, item, ret,
                    custom_method, maxiter, sol, state_error, tol, i, result,
                    methods0, runs, steps, failed >>

\* a run that swallows the exception and ends the method's loop
Raise_caught ==
    /\ pc' = "exit"
    /\ failed' = item
    /\ exit_reason' = "raised"
    /\ UNCHANGED << methods, metrics, user_method, res_methods, data, item, ret,
                    custom_method, maxiter, sol, state_error, tol, i, result,
                    methods0, runs, steps, consulted >>

\* an exception leaves __run_solver and run(): nothing catches it
Raise ==
    /\ pc' = "raised"
    /\ failed' = item
    /\ UNCHANGED << methods, metrics, user_method, res_methods, data, item, ret,
                    custom_method, maxiter, sol, state_error, tol, i, result,
                    methods0, runs, steps, consulted, exit_reason >>

\* the body of the loop: one update and the metric bookkeeping.  The update
\* may raise (always on a None iterate); a custom State carries no error, so
\* reading state.error for the "errors" metric raises after the other
\* metrics of the iteration were recorded.
Step ==
    /\ UNCHANGED plot_vars
    /\ pc = "body"
    /\ \E ok \in BOOLEAN, err \in (IF custom_method THEN {None} ELSE ErrVals) :
         IF ~ok \/ sol = None
         THEN Raise
         ELSE /\ sol' = NextPoint(sol)
              /\ state_error' = err
              /\ steps' = steps + 1
              /\ IF custom_method /\ "errors" \in metrics
                 THEN /\ result' = Collect(result, metrics \ {"errors"}, sol', err)
                      /\ pc' = "raised"
                      /\ failed' = item
                      /\ UNCHANGED i
                 ELSE /\ result' = Collect(result, metrics, sol', err)
                      /\ i' = i + 1
                      /\ pc' = "check"
                      /\ UNCHANGED failed
              /\ UNCHANGED << methods, metrics, user_method, res_methods, data,
                              item, ret, custom_method, maxiter, tol, methods0,
                              runs, consulted, exit_reason >>

\* ---- Benchmark.run --------------------------------------------------------
\* a run that forgets to record the method
RecordMethod_skip(ms, method) == ms

\* res.methods.append(method)
RecordMethod(ms, method) == Append(ms, method)

\* run() is called: res and data are created
Run ==
    /\ UNCHANGED plot_vars
    /\ pc \in {"idle", "returned", "raised"}
    /\ runs < MaxRuns
    /\ runs' = runs + 1
    /\ user_method' \in UserMethods
    /\ res_methods' = << >>
    /\ data' = EmptyDict
    /\ item' = 1
    /\ ret' = NoneObj
    /\ failed' = 0
    /\ pc' = "items"
    /\ LeaveSolver
    /\ UNCHANGED << methods, metrics, methods0 >>

\* one (method, params) of the loop: select the solver and enter __run_solver
MethodBegin ==
    /\ UNCHANGED plot_vars
    /\ pc = "items"
    /\ item <= Len(methods)
    /\ LET method == methods[item].method
           params == methods[item].params
           x_init == IF "x_init" \in DOMAIN params THEN params["x_init"] ELSE None
           popped == Pop(params, "x_init")
       IN  IF startswith(method, GRADIENT_DESCENT)
           THEN /\ res_methods' = RecordMethod(res_methods, method)
                /\ methods' = [methods EXCEPT ![item].params = popped]
                /\ EnterSolver(FALSE, popped["maxiter"], None, x_init, popped)
                /\ UNCHANGED item
           ELSE IF user_method # NoneObj
           THEN /\ res_methods' = RecordMethod(res_methods, method)
                /\ methods' = [methods EXCEPT ![item].params = popped]
                /\ EnterSolver(TRUE, user_method.maxiter, user_method.x_init,
                               x_init, popped)
                /\ UNCHANGED item
           ELSE /\ item' = item + 1
                /\ UNCHANGED << res_methods, methods, solver_vars, pc >>
    /\ UNCHANGED << metrics, user_method, data, ret, methods0, runs, failed >>

\* the epilogue of __run_solver and data[self.problem][method] = sub
SolverReturn ==
    /\ UNCHANGED plot_vars
    /\ pc = "exit"
    /\ LET sub == IF "time" \in metrics THEN Put(result, "time", << Duration >>)
                  ELSE result
       IN  /\ result' = sub
           /\ data' = Put(data, methods[item].method, sub)
    /\ item' = item + 1
    /\ pc' = "items"
    /\ UNCHANGED << methods, metrics, user_method, res_methods, ret,
                    custom_method, maxiter, sol, state_error, tol, i,
                    methods0, runs, steps, consulted, exit_reason, failed >>

\* res.data = data; return res
Return ==
    /\ UNCHANGED plot_vars
    /\ pc = "items"
    /\ item > Len(methods)
    /\ ret' = [kind |-> "BenchmarkResult", methods |-> res_methods, data |-> data]
    /\ pc' = "returned"
    /\ UNCHANGED << methods, metrics, user_method, res_methods, data, item,
                    methods0, runs, failed, solver_vars >>

Next ==
    \/ Run
    \/ MethodBegin
    \/ LoopCheck
    \/ Step
    \/ SolverReturn
    \/ Return

Spec == Init /\ [][Next]_vars

\* ==== Properties of Benchmark.__run_solver and Benchmark.run (Spec) =======
InSolver == pc \in {"check", "body", "exit", "raised"}

HistoryRequested == {"history_x", "history_f"} \subseteq metrics

\* the keyword arguments of the current __run_solver call
kwargs == methods[item].params

\* run() reaches the solver for this entry of the configuration
Runnable(n) ==
    startswith(methods[n].method, GRADIENT_DESCENT) \/ user_method # NoneObj

\* C1, as stated: when __run_solver returns and "history_x" and "history_f"
\* were requested, both series exist and are as long as the number of update
\* steps completed, for every maxiter >= 0.
C1_HistoryLengthAnyMaxiter ==
    (pc = "exit" /\ HistoryRequested) =>
        \A k \in {"history_x", "history_f"} :
            k \in DOMAIN result /\ Len(result[k]) = steps

\* C1, amended: when __run_solver returns and both histories were requested,
\* each series is as long as the number of completed update steps if at least
\* one step was completed; after zero steps the result has no such key.
C1_HistoryLength ==
    (pc = "exit" /\ HistoryRequested) =>
        \A k \in {"history_x", "history_f"} :
            IF steps = 0 THEN k \notin DOMAIN result
            ELSE k \in DOMAIN result /\ Len(result[k]) = steps

C1_Witness ==
    /\ pc = "exit"
    /\ HistoryRequested
    /\ steps = 2
    /\ Len(result["history_x"]) = 2
    /\ Len(result["history_f"]) = 2

\* C2: the stop condition is never evaluated before the first update step, so
\* no loop ends on its stop condition after zero steps.
C2_NoStopBeforeFirstUpdate ==
    /\ ~consulted
    /\ (InSolver /\ exit_reason = "stop") => steps >= 1

C2_Witness ==
    /\ pc = "exit"
    /\ custom_method
    /\ exit_reason = "stop"
    /\ steps = 1
    /\ maxiter > 1

\* C3: the number of update steps of a loop never exceeds solver.maxiter.
C3_StepsBounded == InSolver => steps <= maxiter

C3_Witness ==
    /\ pc = "exit"
    /\ exit_reason = "maxiter"
    /\ steps = maxiter
    /\ maxiter >= 2

\* C4, as stated: for a built-in method whose parameters contain 'tol', the
\* loop at iteration i > 0 goes on only if the previous step's state.error is
\* not below the configured 'tol', and breaks only if it is below it.
C4_ConfiguredTolDecides ==
    (pc \in {"body", "exit"} /\ ~custom_method /\ i > 0 /\ "tol" \in DOMAIN kwargs) =>
        /\ pc = "body" => ~(state_error < kwargs["tol"])
        /\ (pc = "exit" /\ exit_reason = "stop") => state_error < kwargs["tol"]

\* C5, as stated: when a step raised inside one method's loop and the call of
\* run() has ended, every other runnable method has its series in the returned
\* result.
C5_OtherMethodsStillRun ==
    (pc \in {"raised", "returned"} /\ failed # 0) =>
        /\ ret # NoneObj
        /\ \A n \in 1..Len(methods) :
             (n # failed /\ Runnable(n)) => methods[n].method \in DOMAIN ret.data

\* C5, amended: a step that raises inside one method's loop ends the call of
\* run() there: no result is returned, the failing method gets no entry, no
\* method after it is run, and a call that does return has had no failing step.
C5_RaiseAbortsRun ==
    /\ pc = "raised" =>
         /\ ret = NoneObj
         /\ failed = item
         /\ methods[item].method \notin DOMAIN data
         /\ \A n \in (item + 1)..Len(methods) :
              methods[n].method \notin (ToSet(res_methods) \cup DOMAIN data)
    /\ pc = "returned" => failed = 0

C5_Witness ==
    /\ pc = "raised"
    /\ item = 1
    /\ Len(methods) = 2
    /\ Runnable(2)
    /\ steps = 1

\* C6, as stated: at every point of run() and in the returned result, the set
\* of names in res.methods equals the set of methods with an entry in data.
C6_MethodsEqualDataAlways ==
    /\ pc # "idle" => ToSet(res_methods) = DOMAIN data
    /\ ret # NoneObj => ToSet(ret.methods) = DOMAIN ret.data

\* C6, amended: in the result run() returns and at every point of run()
\* between two methods, the names in res.methods are the methods with an entry
\* in data, and in the returned result these are the methods that matched a
\* solver kind.  While a method's loop runs, and when it raises, res.methods
\* holds that method's name in addition.
C6_MethodsRecorded ==
    /\ pc \in {"items", "returned"} => ToSet(res_methods) = DOMAIN data
    /\ InSolver => ToSet(res_methods) = DOMAIN data \cup {methods[item].method}
    /\ pc = "returned" =>
         /\ ToSet(ret.methods) = DOMAIN ret.data
         /\ DOMAIN ret.data = {methods[n].method : n \in {k \in 1..Len(methods) : Runnable(k)}}

C6_Witness ==
    /\ pc = "returned"
    /\ Len(methods) = 2
    /\ ~Runnable(1)
    /\ DOMAIN ret.data = {methods[2].method}
    /\ ret.methods = << methods[2].method >>

\* C7, as stated: after run() returns, every method's parameter mapping is
\* what was passed at construction.
C7_ConfigurationReadOnly == pc = "returned" => methods = methods0

\* C10: when "nit" is requested and at least one step was completed, the
\* "nit" series is the single element equal to the number of completed steps.
C10_NitCounter ==
    (InSolver /\ "nit" \in metrics /\ steps >= 1) =>
        "nit" \in DOMAIN result /\ result["nit"] = << steps >>

C10_Witness ==
    /\ pc = "exit"
    /\ "nit" \in metrics
    /\ steps = 2
    /\ result["nit"] = << 2 >>

\* ---- Plotter (src/benchmarx/plotter.py) ----------------------------------
MaxOptions == 2         \* longest list of metrics handed to plot()
MaxPlotMethods == 2     \* most methods in the table

\* metric names and method names, as sequences of characters
F == << "f" >>
F_GAP == << "f", "_", "g", "a", "p" >>
X == << "x" >>
PlotMetricNames == {F, F_GAP, X}

GD == << "G", "D" >>
FAST_GD == << "f", "a", "s", "t", "G", "D" >>
SGD == << "S", "G", "D" >>
PlotMethodNames == {GD, FAST_GD, SGD}

UPPER == << "_", "u", "p", "p", "e", "r" >>
LOWER == << "_", "l", "o", "w", "e", "r" >>

\* sequences of at most n distinct elements of S
DistinctSeqs(S, n) ==
    { q \in UNION { [1..k -> S] : k \in 1..n } :
        \A a, b \in 1..Len(q) : a # b => q[a] # q[b] }

\* the tables: the unique methods in order of appearance, and the pairs
\* (method, metric) whose "<metric>_std" column is zero in every row
DataFrames(ms) ==
    UNION { { [methods |-> q, flat |-> z] : z \in SUBSET (ToSet(q) \X ToSet(ms)) } :
              q \in DistinctSeqs(PlotMethodNames, MaxPlotMethods) }

\* Python's `sub in s` on strings
Contains(sub, s) ==
    \E k \in 0..Len(s) :
        /\ k + Len(sub) <= Len(s)
        /\ SubSeq(s, k + 1, k + Len(sub)) = sub

\* f"{method} - {option['label']}" and its _upper / _lower variants
HoverText(method, label, suffix) ==
    method \o << " ", "-", " " >> \o label \o suffix

\* plot(): dropdown_options = [{"label": metric, "value": metric} ...]
MakeOptions(ms) == [n \in 1..Len(ms) |-> [label |-> ms[n], value |-> ms[n]]]

\* traces that are all visible by default
DefaultVisible_all(option, options) == option.value = option.value

\* visible=option["value"] == dropdown_options[0]["value"]
DefaultVisible(option, options) == option.value = options[1].value

\* not all([val == 0 for val in method_df[option["value"] + "_std"]])
HasBand(df, method, option) == << method, option.value >> \notin df.flat

\* the traces added for one method and one option
TracesFor(df, options, m, o) ==
    LET method == df.methods[m]
        option == options[o]
        vis == DefaultVisible(option, options)
        trace(name, suffix) ==
            [ name |-> name,
              hovertext |-> HoverText(method, option.label, suffix),
              visible |-> vis,
              method |-> m, option |-> o ]
    IN  << trace("mean", << >>) >> \o
        ( IF HasBand(df, method, option)
          THEN << trace("mean + std", UPPER), trace("mean - std", LOWER) >>
          ELSE << >> )

\* "visible": [option["value"] in trace.hovertext for trace in fig.data]
ButtonVisible(option, traces) ==
    [k \in 1..Len(traces) |-> Contains(option.value, traces[k].hovertext)]

InitPlot ==
    /\ methods = << >>
    /\ methods0 = << >>
    /\ metrics = {}
    /\ RunIdle
    /\ plot_metrics \in DistinctSeqs(PlotMetricNames, MaxOptions)
    /\ dataframe \in DataFrames(plot_metrics)
    /\ dropdown_options = << >>
    /\ fig_data = << >>
    /\ buttons = << >>
    /\ i_method = 1
    /\ i_option = 1
    /\ ppc = "idle"

\* plot(): build the options and enter plotly_figure
Plot ==
    /\ UNCHANGED run_vars
    /\ ppc = "idle"
    /\ dropdown_options' = MakeOptions(plot_metrics)
    /\ fig_data' = << >>
    /\ buttons' = << >>
    /\ i_method' = 1
    /\ i_option' = 1
    /\ ppc' = "traces"
    /\ UNCHANGED << dataframe, plot_metrics >>

\* one pass of the inner loop: the traces of one method and one option
AddTraces ==
    /\ UNCHANGED run_vars
    /\ ppc = "traces"
    /\ i_method <= Len(dataframe.methods)
    /\ fig_data' = fig_data \o TracesFor(dataframe, dropdown_options, i_method, i_option)
    /\ IF i_option < Len(dropdown_options)
       THEN i_option' = i_option + 1 /\ UNCHANGED i_method
       ELSE i_option' = 1 /\ i_method' = i_method + 1
    /\ UNCHANGED << dataframe, plot_metrics, dropdown_options, buttons, ppc >>

\* fig.update_layout(updatemenus=...): one button per option
UpdateLayout ==
    /\ UNCHANGED run_vars
    /\ ppc = "traces"
    /\ i_method > Len(dataframe.methods)
    /\ buttons' = [j \in 1..Len(dropdown_options) |->
                     [ label |-> dropdown_options[j].label,
                       visible |-> ButtonVisible(dropdown_options[j], fig_data) ]]
    /\ ppc' = "done"
    /\ UNCHANGED << dataframe, plot_metrics, dropdown_options, fig_data,
                    i_method, i_option >>

NextPlot ==
    \/ Plot
    \/ AddTraces
    \/ UpdateLayout

SpecPlot == InitPlot /\ [][NextPlot]_vars

\* ==== Properties of Plotter.plotly_figure (SpecPlot) ========================
\* traces of fig.data that belong to method m and are visible by default
VisibleOf(m) ==
    {k \in 1..Len(fig_data) : fig_data[k].method = m /\ fig_data[k].visible}

\* C8, as stated: in a figure for two or more methods, exactly one trace per
\* method is visible by default, it belongs to the first option, and every
\* trace of another option is hidden -- with or without bands.
C8_OneVisibleTracePerMethod ==
    (ppc = "done" /\ Len(dataframe.methods) >= 2) =>
        /\ \A m \in 1..Len(dataframe.methods) : Cardinality(VisibleOf(m)) = 1
        /\ \A k \in 1..Len(fig_data) : fig_data[k].visible <=> fig_data[k].option = 1

\* C8, amended: a trace is visible by default exactly when it was created for
\* the first option; per method these are its one mean trace and, when the
\* method's std for the first option is not all zero, its two band traces.
C8_FirstOptionVisible ==
    ppc = "done" =>
        /\ \A k \in 1..Len(fig_data) : fig_data[k].visible <=> fig_data[k].option = 1
        /\ \A m \in 1..Len(dataframe.methods) :
             /\ Cardinality({k \in VisibleOf(m) : fig_data[k].name = "mean"}) = 1
             /\ Cardinality(VisibleOf(m)) =
                  IF HasBand(dataframe, dataframe.methods[m], dropdown_options[1])
                  THEN 3 ELSE 1

C8_Witness ==
    /\ ppc = "done"
    /\ Len(dataframe.methods) = 2
    /\ Len(dropdown_options) = 2
    /\ Cardinality(VisibleOf(1)) = 3
    /\ Cardinality(VisibleOf(2)) = 1
    /\ \E k \in 1..Len(fig_data) : ~fig_data[k].visible

\* C9, as stated: the button of each option marks visible exactly the traces
\* created for that option, whatever the metric and method names.
C9_ButtonShowsOwnTraces ==
    ppc = "done" =>
        \A j \in 1..Len(buttons) : \A k \in 1..Len(fig_data) :
            buttons[j].visible[k] <=> fig_data[k].option = j

====
